---- MODULE Spec2Model ----
(***************************************************************************)
(* A model of SimpleVector<Type> (simple_vector.h) on top of               *)
(* ArrayPtr<Type> (array_ptr.h).                                           *)
(*                                                                         *)
(* The heap is a finite set of blocks; an ArrayPtr is a record of its two  *)
(* fields raw_ptr_ and capacity_; a SimpleVector is a record of its three  *)
(* fields items_, size_ and capacity_.  Every member function is a pure    *)
(* operator from (heap, objects, arguments, failure point) to the heap and *)
(* objects it leaves behind, temporaries and their destructors included,   *)
(* and one action applies it to one of the vector objects "a" and "b".     *)
(*                                                                         *)
(* Indices are the 0-based indices of the source; cell i of a block is     *)
(* element i+1 of the TLA+ sequence that holds the block.                  *)
(***************************************************************************)
EXTENDS Integers, Sequences, FiniteSets, TLC

\* ---------------------------------------------------------------- bounds
\* Largest capacity / size / index a program with one vector asks for.
MaxCap == 6
\* Largest capacity / size / index a program with two vectors asks for.
PairCap == 2
\* Number of heap blocks that can be allocated at the same time.
NBlocks == 3

\* Type(): the value of a default-constructed (value-initialised) element.
DefaultVal == 0

\* The element type has two values: the default one and another one.
Vals == {DefaultVal, DefaultVal + 1}
Names == {"a", "b"}
Blocks == 1..NBlocks
\* nullptr
NullBlock == 0

VARIABLES
    vec,     \* vec[x]: the SimpleVector object x (live: constructed, not destroyed)
    heap,    \* heap[b]: block b of the free store
    last,    \* the call that has just returned, its arguments and how it ended
    copied   \* history: "b" was made as a copy of "a", which no call has touched since

vars == <<vec, heap, last, copied>>

Min(x, y) == IF x <= y THEN x ELSE y
Max(x, y) == IF x >= y THEN x ELSE y

\* ------------------------------------------------------------------ heap
\* twice: delete[] has been applied to the block while it was not allocated.
DeadBlock == [alive |-> FALSE, cells |-> <<>>, twice |-> FALSE]
TwiceFreedBlock == [alive |-> FALSE, cells |-> <<>>, twice |-> TRUE]
EmptyHeap == [b \in Blocks |-> DeadBlock]
FreeBlocks(h) == {b \in Blocks : ~h[b].alive /\ ~h[b].twice}
\* The address operator new[] returns: the lowest free block.
FreshBlock(h) == CHOOSE b \in FreeBlocks(h) : \A c \in FreeBlocks(h) : b <= c
\* new Type[n]{}: n value-initialised cells.
NewArray(h, n) ==
    [h EXCEPT ![FreshBlock(h)] =
                 [alive |-> TRUE, cells |-> [i \in 1..n |-> DefaultVal], twice |-> FALSE]]
\* delete[] p (a no-op on nullptr).
DeleteArray(h, p) ==
    IF p = NullBlock THEN h
    ELSE IF h[p].alive THEN [h EXCEPT ![p] = DeadBlock]
    ELSE [h EXCEPT ![p] = TwiceFreedBlock]
\* The cells p points at.
Cells(h, p) == IF p = NullBlock THEN <<>> ELSE h[p].cells
\* p[i] designates a cell of an allocated array.
InBounds(h, p, i) == p # NullBlock /\ h[p].alive /\ i >= 0 /\ i < Len(h[p].cells)
\* p[i] = x
Store(h, p, i, x) ==
    IF InBounds(h, p, i) THEN [h EXCEPT ![p].cells[i + 1] = x] ELSE h
\* p[i]
Load(h, p, i) == IF InBounds(h, p, i) THEN h[p].cells[i + 1] ELSE DefaultVal

\* What a moved-from element holds: its old value (a type whose move is a
\* copy, such as int) or the default value (a type whose move empties it).
MovedFrom(x, mr) == IF mr THEN DefaultVal ELSE x

\* *d = *s (mv = FALSE) or *d = std::move(*s) (mv = TRUE) for s = sp + si, d = dp + di.
Assign(h, sp, si, dp, di, mv, mr) ==
    LET x  == Load(h, sp, si)
        h1 == Store(h, dp, di, x)
    IN  IF mv /\ ~(sp = dp /\ si = di) THEN Store(h1, sp, si, MovedFrom(x, mr)) ELSE h1

\* std::copy / std::move(first, last, d_first): n elements, first to last.
RECURSIVE Forward(_, _, _, _, _, _, _, _)
Forward(h, sp, si, n, dp, di, mv, mr) ==
    IF n <= 0 THEN h
    ELSE Forward(Assign(h, sp, si, dp, di, mv, mr), sp, si + 1, n - 1, dp, di + 1, mv, mr)

\* std::copy_backward / std::move_backward: n elements, last to first.
RECURSIVE Backward(_, _, _, _, _, _, _, _)
Backward(h, sp, si, n, dp, di, mv, mr) ==
    IF n <= 0 THEN h
    ELSE Backward(Assign(h, sp, si + n - 1, dp, di + n - 1, mv, mr),
                  sp, si, n - 1, dp, di, mv, mr)

\* std::fill / std::generate over [p + first, p + first + n).
RECURSIVE Fill(_, _, _, _, _)
Fill(h, p, first, n, x) ==
    IF n <= 0 THEN h ELSE Fill(Store(h, p, first, x), p, first + 1, n - 1, x)

\* -------------------------------------------------------------- ArrayPtr
\* ArrayPtr(): raw_ptr_ = nullptr, capacity_ = 0.
ArrayPtrDefault == [raw_ptr |-> NullBlock, capacity |-> 0]
\* explicit ArrayPtr(size_t size): the heap and the handle it leaves.
ArrayPtrSized(h, size) ==
    IF size > 0
    THEN [h |-> NewArray(h, size), p |-> [raw_ptr |-> FreshBlock(h), capacity |-> size]]
    ELSE [h |-> h, p |-> ArrayPtrDefault]
\* explicit ArrayPtr(Type* raw_ptr): capacity_ keeps its default member initialiser.
ArrayPtrRaw(raw) == [raw_ptr |-> raw, capacity |-> 0]
\* Release(): the handle left behind (the raw pointer returned is p.raw_ptr).
Release(p) == [p EXCEPT !.raw_ptr = NullBlock]
\* ~ArrayPtr()
ArrayPtrDestroy(h, p) == DeleteArray(h, p.raw_ptr)

\* ---------------------------------------------------------- SimpleVector
\* A vector object that is not constructed (or already destroyed).
NoVector == [live |-> FALSE, items |-> ArrayPtrDefault, size |-> 0, capacity |-> 0]
\* SimpleVector(): the default member initialisers.
SimpleVectorDefault == [live |-> TRUE, items |-> ArrayPtrDefault, size |-> 0, capacity |-> 0]

GetSize(v) == v.size
GetCapacity(v) == v.capacity
IsEmpty(v) == v.size = 0
\* begin() / cbegin(): items_.Get()
Begin(v) == v.items.raw_ptr

\* The number of cells of the buffer v owns.
Allocated(h, v) == Len(Cells(h, Begin(v)))
\* The elements [begin(), end()) as a sequence.
Elems(h, v) == [i \in 1..v.size |-> Load(h, Begin(v), i - 1)]


\* How an operation ends.  "ub": it performed an access with undefined
\* behaviour (a store through a null or too short buffer), after which
\* nothing is known of the program: the objects are left as they were at the
\* faulting store and no further call is made.  "terminate": an exception
\* left a noexcept function (std::terminate), which ends the program too.
Outcomes == {"ok", "bad_alloc", "throw", "out_of_range", "ub", "terminate"}
\* Where an operation is made to fail.  "alloc": operator new[] throws
\* std::bad_alloc; "build": an element constructor or assignment throws while
\* a buffer not yet adopted is being filled; "late": an element constructor
\* or assignment throws while the container's own buffer is being written.
FailPoints == {"none", "alloc", "build", "late"}
Thrown(fail) == IF fail = "alloc" THEN "bad_alloc" ELSE "throw"

\* explicit SimpleVector(size_t size)
SimpleVectorSized(h, size) ==
    LET r == ArrayPtrSized(h, size)
    IN  [h |-> Fill(r.h, r.p.raw_ptr, 0, size, DefaultVal),
         v |-> [live |-> TRUE, items |-> r.p, size |-> size, capacity |-> size]]

\* SimpleVector(size_t size, const Type& value)
SimpleVectorFilled(h, size, value) ==
    LET r == ArrayPtrSized(h, size)
    IN  [h |-> Fill(r.h, r.p.raw_ptr, 0, size, value),
         v |-> [live |-> TRUE, items |-> r.p, size |-> size, capacity |-> size]]

\* std::move(init.begin(), init.end(), begin()): the elements of an
\* initializer_list are const, so each one is copied.
RECURSIVE StoreAll(_, _, _, _)
StoreAll(h, p, first, init) ==
    IF init = <<>> THEN h
    ELSE StoreAll(Store(h, p, first, Head(init)), p, first + 1, Tail(init))

\* SimpleVector(std::initializer_list<Type> init)
SimpleVectorInit(h, init) ==
    LET r == ArrayPtrSized(h, Len(init))
    IN  [h |-> StoreAll(r.h, r.p.raw_ptr, 0, init),
         v |-> [live |-> TRUE, items |-> r.p, size |-> Len(init), capacity |-> Len(init)]]

\* explicit SimpleVector(ReserveProxyObj capacity)
SimpleVectorReserved(h, capacity_to_reserve) ==
    LET r == ArrayPtrSized(h, capacity_to_reserve)
    IN  [h |-> r.h,
         v |-> [live |-> TRUE, items |-> r.p, size |-> 0, capacity |-> capacity_to_reserve]]

\* ~SimpleVector(): the destructor of the member items_.
SimpleVectorDestroy(h, v) == ArrayPtrDestroy(h, v.items)

\* ArrayPtr::swap: the two handles after the exchange.
ArrayPtrSwap(p, q) == <<q, p>>

\* SimpleVector::swap: the two vectors after the exchange.
swap(t, o) ==
    LET ps == ArrayPtrSwap(t.items, o.items)
    IN  << [t EXCEPT !.items = ps[1], !.size = o.size, !.capacity = o.capacity],
           [o EXCEPT !.items = ps[2], !.size = t.size, !.capacity = t.capacity] >>

\* A copy constructor that copies the members (the handle, not the cells).
SimpleVectorCopyShallow(h, other) == [h |-> h, v |-> other]

\* SimpleVector(const SimpleVector& other): the heap and the new vector.
SimpleVectorCopy(h, other) ==
    LET tmp == SimpleVectorSized(h, other.size)
        h1  == Forward(tmp.h, Begin(other), 0, other.size, Begin(tmp.v), 0, FALSE, FALSE)
        sw  == swap(SimpleVectorDefault, tmp.v)
    IN  [h |-> SimpleVectorDestroy(h1, sw[2]), v |-> sw[1]]

\* Clear()
Clear(t) == [t EXCEPT !.size = 0]

\* A move constructor that takes the buffer without calling other.Clear().
SimpleVectorMoveKeepsSize(other) ==
    LET ps == ArrayPtrSwap(ArrayPtrDefault, other.items)
    IN  [v |-> [live |-> TRUE, items |-> ps[1], size |-> other.size,
                capacity |-> other.capacity],
         o |-> [other EXCEPT !.items = ps[2]]]

\* SimpleVector(SimpleVector&& other) noexcept: the new vector and what is
\* left of other.  ArrayPtr(ArrayPtr&&) swaps a null handle with other.items_.
SimpleVectorMove(other) ==
    LET ps == ArrayPtrSwap(ArrayPtrDefault, other.items)
    IN  [v |-> [live |-> TRUE, items |-> ps[1], size |-> other.size,
                capacity |-> other.capacity],
         o |-> Clear([other EXCEPT !.items = ps[2]])]

\* A copy assignment without the shortcut for an empty rhs: copy-and-swap always.
CopyAssignAlwaysSwaps(h, t, rhs, same, fail) ==
    IF same THEN [h |-> h, t |-> t, out |-> "ok"]
    ELSE IF fail # "none" THEN [h |-> h, t |-> t, out |-> Thrown(fail)]
    ELSE LET rhs_copy == SimpleVectorCopy(h, rhs)
             sw       == swap(t, rhs_copy.v)
         IN  [h |-> SimpleVectorDestroy(rhs_copy.h, sw[2]), t |-> sw[1], out |-> "ok"]

\* operator=(const SimpleVector& rhs); same: &rhs == this.
CopyAssign(h, t, rhs, same, fail) ==
    IF same THEN [h |-> h, t |-> t, out |-> "ok"]
    ELSE IF IsEmpty(rhs) THEN [h |-> h, t |-> Clear(t), out |-> "ok"]
    ELSE IF fail # "none" THEN [h |-> h, t |-> t, out |-> Thrown(fail)]
    ELSE LET rhs_copy == SimpleVectorCopy(h, rhs)
             sw       == swap(t, rhs_copy.v)
         IN  [h |-> SimpleVectorDestroy(rhs_copy.h, sw[2]), t |-> sw[1], out |-> "ok"]

\* A Resize that grows within the capacity by setting size_ alone.
ResizeInPlace(h, t, new_size, fail) ==
    IF t.size <= new_size /\ new_size > t.capacity
    THEN IF fail \in {"alloc", "build"}
         THEN [h |-> h, t |-> t, out |-> Thrown(fail)]
         ELSE LET old_size == t.size
                  tmp == SimpleVectorSized(h, new_size)
                  h1  == IF ~IsEmpty(t)
                         THEN Forward(tmp.h, Begin(t), 0, t.size, Begin(tmp.v), 0, TRUE, FALSE)
                         ELSE tmp.h
                  t1  == [t EXCEPT !.size = new_size, !.capacity = new_size * 2]
                  sw  == swap(t1, tmp.v)
              IN  IF fail = "late"
                  THEN [h |-> SimpleVectorDestroy(h1, sw[2]), t |-> sw[1], out |-> "throw"]
                  ELSE [h |-> SimpleVectorDestroy(
                                  Fill(h1, Begin(sw[1]), old_size,
                                       sw[1].size - old_size, DefaultVal), sw[2]),
                        t |-> sw[1], out |-> "ok"]
    ELSE [h |-> h, t |-> [t EXCEPT !.size = new_size],
          out |-> IF fail = "none" THEN "ok" ELSE Thrown(fail)]

\* Resize(size_t new_size)
Resize(h, t, new_size, fail) ==
    IF t.size <= new_size
    THEN IF fail \in {"alloc", "build"}
         THEN [h |-> h, t |-> t, out |-> Thrown(fail)]
         ELSE LET old_size == t.size
                  tmp == SimpleVectorSized(h, new_size)
                  h1  == IF ~IsEmpty(t)
                         THEN Forward(tmp.h, Begin(t), 0, t.size, Begin(tmp.v), 0, TRUE, FALSE)
                         ELSE tmp.h
                  t1  == [t EXCEPT !.size = new_size, !.capacity = new_size * 2]
                  sw  == swap(t1, tmp.v)
              IN  IF fail = "late"
                  THEN [h |-> SimpleVectorDestroy(h1, sw[2]), t |-> sw[1], out |-> "throw"]
                  ELSE [h |-> SimpleVectorDestroy(
                                  Fill(h1, Begin(sw[1]), old_size,
                                       sw[1].size - old_size, DefaultVal), sw[2]),
                        t |-> sw[1], out |-> "ok"]
    ELSE [h |-> h, t |-> [t EXCEPT !.size = new_size], out |-> "ok"]

\* operator=(SimpleVector&& rhs) noexcept (the overload chosen for
\* b = std::move(a)); mr: what the moved-from elements of rhs are left with.
\* An exception of Resize (exc) cannot leave the noexcept function.
MoveAssign(h, t, rhs, fail, mr) ==
    IF Begin(t) # Begin(rhs)
    THEN LET r == Resize(h, t, rhs.size, fail)
         IN  IF r.out # "ok"
             THEN [h |-> r.h, t |-> r.t, out |-> "terminate", exc |-> r.out]
             ELSE [h |-> Forward(r.h, Begin(rhs), 0, rhs.size, Begin(r.t), 0, TRUE, mr),
                   t |-> r.t, out |-> "ok", exc |-> "none"]
    ELSE [h |-> h, t |-> t, out |-> "ok", exc |-> "none"]

\* A Reserve that adopts the new buffer without moving the elements into it.
ReserveEmpty(h, t, new_capacity, fail) ==
    IF new_capacity > t.capacity
    THEN IF fail # "none" THEN [h |-> h, t |-> t, out |-> Thrown(fail)]
         ELSE LET new_vector == SimpleVectorSized(h, new_capacity)
                  ps == ArrayPtrSwap(t.items, new_vector.v.items)
                  nv == [new_vector.v EXCEPT !.items = ps[2]]
              IN  [h |-> SimpleVectorDestroy(new_vector.h, nv),
                   t |-> [t EXCEPT !.items = ps[1], !.capacity = new_capacity],
                   out |-> "ok"]
    ELSE [h |-> h, t |-> t, out |-> "ok"]

\* Reserve(size_t new_capacity)
Reserve(h, t, new_capacity, fail) ==
    IF new_capacity > t.capacity
    THEN IF fail # "none" THEN [h |-> h, t |-> t, out |-> Thrown(fail)]
         ELSE LET new_vector == SimpleVectorSized(h, new_capacity)
                  h1 == Forward(new_vector.h, Begin(t), 0, t.size,
                                Begin(new_vector.v), 0, TRUE, FALSE)
                  ps == ArrayPtrSwap(t.items, new_vector.v.items)
                  nv == [new_vector.v EXCEPT !.items = ps[2]]
              IN  [h |-> SimpleVectorDestroy(h1, nv),
                   t |-> [t EXCEPT !.items = ps[1], !.capacity = new_capacity],
                   out |-> "ok"]
    ELSE [h |-> h, t |-> t, out |-> "ok"]

\* A ReallocateCopy that returns the pointer of new_items without Release().
ReallocateCopyUnreleased(h, t, new_capacity) ==
    LET new_items == ArrayPtrSized(h, new_capacity)
        copy_size == Min(new_capacity, t.size)
        h1 == Forward(new_items.h, Begin(t), 0, copy_size, new_items.p.raw_ptr, 0,
                      FALSE, FALSE)
    IN  [h |-> ArrayPtrDestroy(h1, new_items.p), p |-> ArrayPtrRaw(new_items.p.raw_ptr)]

\* ReallocateCopy(size_t new_capacity) const: the heap and the handle returned.
ReallocateCopy(h, t, new_capacity) ==
    LET new_items == ArrayPtrSized(h, new_capacity)
        copy_size == Min(new_capacity, t.size)
        h1 == Forward(new_items.h, Begin(t), 0, copy_size, new_items.p.raw_ptr, 0,
                      FALSE, FALSE)
        released == Release(new_items.p)
    IN  [h |-> ArrayPtrDestroy(h1, released), p |-> ArrayPtrRaw(new_items.p.raw_ptr)]

\* PushBack(const Type& item)
PushBackCopy(h, t, item, fail) ==
    LET new_size == t.size + 1
    IN  IF new_size > t.capacity
        THEN IF fail # "none" THEN [h |-> h, t |-> t, out |-> Thrown(fail)]
             ELSE LET new_capacity == Max(t.capacity * 2, new_size)
                      new_items == ReallocateCopy(h, t, new_capacity)
                      h1 == Store(new_items.h, new_items.p.raw_ptr, t.size, item)
                      ps == ArrayPtrSwap(t.items, new_items.p)
                  IN  [h |-> ArrayPtrDestroy(h1, ps[2]),
                       t |-> [t EXCEPT !.items = ps[1], !.capacity = new_capacity,
                                       !.size = new_size],
                       out |-> "ok"]
        ELSE IF ~InBounds(h, Begin(t), t.size) THEN [h |-> h, t |-> t, out |-> "ub"]
        ELSE IF fail # "none" THEN [h |-> h, t |-> t, out |-> "throw"]
        ELSE [h |-> Store(h, Begin(t), t.size, item),
              t |-> [t EXCEPT !.size = new_size], out |-> "ok"]

\* A ResizeCapacity that adopts the new buffer and forgets capacity_.
ResizeCapacityStale(h, t, new_capacity) ==
    LET tmp_data == ArrayPtrSized(h, new_capacity)
        h1 == Forward(tmp_data.h, Begin(t), 0, t.size, tmp_data.p.raw_ptr, 0, TRUE, FALSE)
        ps == ArrayPtrSwap(t.items, tmp_data.p)
    IN  [h |-> ArrayPtrDestroy(h1, ps[2]), t |-> [t EXCEPT !.items = ps[1]]]

\* ResizeCapacity(size_t new_capacity): the heap and the vector it leaves.
ResizeCapacity(h, t, new_capacity) ==
    LET tmp_data == ArrayPtrSized(h, new_capacity)
        h1 == Forward(tmp_data.h, Begin(t), 0, t.size, tmp_data.p.raw_ptr, 0, TRUE, FALSE)
        ps == ArrayPtrSwap(t.items, tmp_data.p)
    IN  [h |-> ArrayPtrDestroy(h1, ps[2]),
         t |-> [t EXCEPT !.items = ps[1], !.capacity = new_capacity]]

\* A PushBack(Type&&) that grows a full vector by one cell instead of doubling.
PushBackMoveGrowsByOne(h, t, value, fail) ==
    IF t.capacity = t.size /\ fail # "none"
    THEN [h |-> h, t |-> t, out |-> Thrown(fail)]
    ELSE LET r == IF t.capacity = t.size
                  THEN ResizeCapacity(h, t, t.size + 1)
                  ELSE [h |-> h, t |-> t]
         IN  IF ~InBounds(r.h, Begin(r.t), r.t.size)
             THEN [h |-> r.h, t |-> r.t, out |-> "ub"]
             ELSE [h |-> Store(r.h, Begin(r.t), r.t.size, value),
                   t |-> [r.t EXCEPT !.size = r.t.size + 1], out |-> "ok"]

\* PushBack(Type&& value)
PushBackMove(h, t, value, fail) ==
    IF t.capacity = t.size /\ fail # "none"
    THEN [h |-> h, t |-> t, out |-> Thrown(fail)]
    ELSE LET r == IF t.capacity = t.size
                  THEN ResizeCapacity(h, t, IF t.size = 0 THEN 1 ELSE t.size * 2)
                  ELSE [h |-> h, t |-> t]
         IN  IF ~InBounds(r.h, Begin(r.t), r.t.size)
             THEN [h |-> r.h, t |-> r.t, out |-> "ub"]
             ELSE [h |-> Store(r.h, Begin(r.t), r.t.size, value),
                   t |-> [r.t EXCEPT !.size = r.t.size + 1], out |-> "ok"]

\* Insert(ConstIterator pos, const Type& value), pos = begin() + new_item_offset.
\* On the in-place path a failure strikes after `shifted` elements of the
\* tail have been copied one cell to the right.
InsertCopy(h, t, new_item_offset, value, fail, shifted) ==
    LET new_size == t.size + 1
        tail == t.size - new_item_offset
    IN  IF new_size <= t.capacity
        THEN IF ~InBounds(h, Begin(t), t.size) THEN [h |-> h, t |-> t, out |-> "ub"]
             ELSE IF fail # "none"
             THEN [h |-> Backward(h, Begin(t), t.size - shifted, shifted,
                                  Begin(t), t.size - shifted + 1, FALSE, FALSE),
                   t |-> t, out |-> "throw"]
             ELSE [h |-> Store(Backward(h, Begin(t), new_item_offset, tail,
                                        Begin(t), new_item_offset + 1, FALSE, FALSE),
                               Begin(t), new_item_offset, value),
                   t |-> [t EXCEPT !.size = new_size], out |-> "ok"]
        ELSE IF fail # "none" THEN [h |-> h, t |-> t, out |-> Thrown(fail)]
        ELSE LET new_capacity == Max(t.capacity * 2, new_size)
                 new_items == ArrayPtrSized(h, new_capacity)
                 np == new_items.p.raw_ptr
                 h1 == Forward(new_items.h, Begin(t), 0, new_item_offset, np, 0,
                               FALSE, FALSE)
                 h2 == Store(h1, np, new_item_offset, value)
                 h3 == Forward(h2, Begin(t), new_item_offset, tail,
                               np, new_item_offset + 1, FALSE, FALSE)
                 ps == ArrayPtrSwap(t.items, new_items.p)
             IN  [h |-> ArrayPtrDestroy(h3, ps[2]),
                  t |-> [t EXCEPT !.items = ps[1], !.capacity = new_capacity,
                                  !.size = new_size],
                  out |-> "ok"]

\* Insert(ConstIterator pos, Type&& value), pos = begin() + insert_index.
InsertMove(h, t, insert_index, value, fail) ==
    IF t.capacity > t.size
    THEN IF ~InBounds(h, Begin(t), t.size) THEN [h |-> h, t |-> t, out |-> "ub"]
         ELSE [h |-> Store(Backward(h, Begin(t), insert_index, t.size - insert_index,
                                    Begin(t), insert_index + 1, TRUE, FALSE),
                           Begin(t), insert_index, value),
               t |-> [t EXCEPT !.size = t.size + 1], out |-> "ok"]
    ELSE IF fail # "none" THEN [h |-> h, t |-> t, out |-> Thrown(fail)]
    ELSE IF t.capacity = 0
    THEN LET tmp_data == ArrayPtrSized(h, 1)
             h1 == Store(tmp_data.h, tmp_data.p.raw_ptr, 0, value)
             ps == ArrayPtrSwap(t.items, tmp_data.p)
         IN  [h |-> ArrayPtrDestroy(h1, ps[2]),
              t |-> [t EXCEPT !.items = ps[1], !.capacity = 1, !.size = 1],
              out |-> "ok"]
    ELSE LET new_capacity == t.size * 2
             tmp_data == ArrayPtrSized(h, new_capacity)
             np == tmp_data.p.raw_ptr
             h1 == Forward(tmp_data.h, Begin(t), 0, insert_index, np, 0, TRUE, FALSE)
             h2 == Store(h1, np, insert_index, value)
             h3 == Forward(h2, Begin(t), insert_index, t.size - insert_index,
                           np, insert_index + 1, TRUE, FALSE)
             ps == ArrayPtrSwap(t.items, tmp_data.p)
         IN  [h |-> ArrayPtrDestroy(h3, ps[2]),
              t |-> [t EXCEPT !.items = ps[1], !.capacity = new_capacity,
                              !.size = t.size + 1],
              out |-> "ok"]

\* PopBack() noexcept
PopBack(t) == IF t.size > 0 THEN [t EXCEPT !.size = t.size - 1] ELSE t

\* An Erase that shifts the tail with std::move_backward.
EraseBackward(h, t, distance, mr) ==
    [h |-> Backward(h, Begin(t), distance + 1, t.size - (distance + 1),
                    Begin(t), distance, TRUE, mr),
     t |-> [t EXCEPT !.size = t.size - 1]]

\* Erase(ConstIterator pos), pos = begin() + distance; mr: what the last,
\* moved-from element is left with.
Erase(h, t, distance, mr) ==
    [h |-> Forward(h, Begin(t), distance + 1, t.size - (distance + 1),
                   Begin(t), distance, TRUE, mr),
     t |-> [t EXCEPT !.size = t.size - 1]]

\* An At that checks the index with > instead of >=.
AtInclusive(h, t, index) ==
    IF index > t.size THEN [out |-> "out_of_range", val |-> DefaultVal]
    ELSE [out |-> "ok", val |-> Load(h, Begin(t), index)]

\* At(size_t index): the outcome and the element referred to.
At(h, t, index) ==
    IF index >= t.size THEN [out |-> "out_of_range", val |-> DefaultVal]
    ELSE [out |-> "ok", val |-> Load(h, Begin(t), index)]

\* operator==
Equal(h, lhs, rhs) ==
    /\ GetSize(lhs) = GetSize(rhs)
    /\ \A i \in 0..(lhs.size - 1) : Load(h, Begin(lhs), i) = Load(h, Begin(rhs), i)

\* ------------------------------------------------- where each call can fail
NoFail == {"none"}
\* A constructor that allocates size cells.
ConstructFails(size) == IF size > 0 THEN {"none", "alloc", "build"} ELSE NoFail
ResizeFails(t, new_size) ==
    NoFail \cup (IF t.size <= new_size /\ new_size > 0 THEN {"alloc", "build"} ELSE {})
           \cup (IF t.size < new_size THEN {"late"} ELSE {})
ReserveFails(t, new_capacity) ==
    IF new_capacity > t.capacity THEN {"none", "alloc", "build"} ELSE NoFail
PushBackCopyFails(t) ==
    IF t.size + 1 > t.capacity THEN {"none", "alloc", "build"} ELSE {"none", "late"}
PushBackMoveFails(t) ==
    IF t.capacity = t.size THEN {"none", "alloc", "build"} ELSE NoFail
InsertCopyFails(t) ==
    IF t.size + 1 <= t.capacity THEN {"none", "late"} ELSE {"none", "alloc", "build"}
InsertMoveFails(t) ==
    IF t.capacity > t.size THEN NoFail ELSE {"none", "alloc", "build"}
CopyAssignFails(rhs, same) ==
    IF ~same /\ ~IsEmpty(rhs) THEN {"none", "alloc", "build"} ELSE NoFail
MoveAssignFails(t, rhs) ==
    IF Begin(t) # Begin(rhs) THEN ResizeFails(t, rhs.size) ELSE NoFail

\* ---------------------------------------------------------------- actions
\* The client is between two calls.
Idle == [op |-> "-", tgt |-> "-", src |-> "-", n |-> 0, val |-> 0, out |-> "ok",
         exc |-> "none", size0 |-> 0, cap0 |-> 0]
Ready == last = Idle

\* The exceptions a call can end with.
Exceptions == {"bad_alloc", "throw", "out_of_range"}

\* out: how the call ended for its caller; exc: the exception raised inside
\* the call ("none" if none was); size0, cap0: the size and capacity the
\* target had when the call was made.
DoneWith(op, tgt, src, n, val, out, exc) ==
    last' = [op |-> op, tgt |-> tgt, src |-> src, n |-> n, val |-> val, out |-> out,
             exc |-> exc,
             size0 |-> GetSize(vec[tgt]), cap0 |-> GetCapacity(vec[tgt])]

\* A call in which an exception, once raised, reaches the caller.
Done(op, tgt, src, n, val, out) ==
    DoneWith(op, tgt, src, n, val, out, IF out \in Exceptions THEN out ELSE "none")

\* The history variable after a call with target x and second operand y
\* ("-" if none): cp says that the call copied y into x.
Track(x, y, cp) ==
    copied' = IF cp /\ x = "b" /\ y = "a" THEN TRUE
              ELSE IF x = "a" \/ y = "a" THEN FALSE
              ELSE IF x = "b" /\ ~vec'["b"].live THEN FALSE
              ELSE copied

Init ==
    /\ vec = [x \in Names |-> NoVector]
    /\ heap = EmptyHeap
    /\ last = Idle
    /\ copied = FALSE

\* The client has seen the result of the call (its return value or the
\* exception it threw) and goes on.  After undefined behaviour or
\* std::terminate there is nothing to go on with.
Proceed ==
    /\ last.op # "-"
    /\ last.out \notin {"ub", "terminate"}
    /\ last' = Idle
    /\ UNCHANGED <<vec, heap, copied>>

\* All initializer lists of at most n elements.
Lists(n) == UNION {[1..k -> Vals] : k \in 0..n}

\* SimpleVector<Type> x;
Construct(x) ==
    /\ Ready /\ ~vec[x].live
    /\ vec' = [vec EXCEPT ![x] = SimpleVectorDefault]
    /\ UNCHANGED heap
    /\ Done("Construct", x, "-", 0, 0, "ok")
    /\ Track(x, "-", FALSE)

\* The heap and vector a constructor leaves, or nothing new when it throws.
Constructed(x, r, op, n, val, fail) ==
    /\ IF fail = "none"
       THEN vec' = [vec EXCEPT ![x] = r.v] /\ heap' = r.h /\ Done(op, x, "-", n, val, "ok")
       ELSE UNCHANGED <<vec, heap>> /\ Done(op, x, "-", n, val, Thrown(fail))
    /\ Track(x, "-", FALSE)

\* SimpleVector<Type> x(size);
ConstructSized(x, size) ==
    /\ Ready /\ ~vec[x].live
    /\ \E fail \in ConstructFails(size) :
          Constructed(x, SimpleVectorSized(heap, size), "ConstructSized", size, 0, fail)

\* SimpleVector<Type> x(size, value);
ConstructFilled(x, size, value) ==
    /\ Ready /\ ~vec[x].live
    /\ \E fail \in ConstructFails(size) :
          Constructed(x, SimpleVectorFilled(heap, size, value), "ConstructFilled",
                      size, value, fail)

\* SimpleVector<Type> x{...};
ConstructInit(x, init) ==
    /\ Ready /\ ~vec[x].live
    /\ \E fail \in ConstructFails(Len(init)) :
          Constructed(x, SimpleVectorInit(heap, init), "ConstructInit", Len(init), 0, fail)

\* SimpleVector<Type> x(Reserve(capacity_to_reserve));
ConstructReserved(x, capacity_to_reserve) ==
    /\ Ready /\ ~vec[x].live
    /\ \E fail \in ConstructFails(capacity_to_reserve) :
          Constructed(x, SimpleVectorReserved(heap, capacity_to_reserve),
                      "ConstructReserved", capacity_to_reserve, 0, fail)

\* SimpleVector<Type> x(y);
ConstructCopy(x, y) ==
    /\ Ready /\ ~vec[x].live /\ vec[y].live
    /\ \E fail \in ConstructFails(vec[y].size) :
          IF fail = "none"
          THEN LET r == SimpleVectorCopy(heap, vec[y])
               IN  /\ vec' = [vec EXCEPT ![x] = r.v]
                   /\ heap' = r.h
                   /\ Done("ConstructCopy", x, y, 0, 0, "ok")
                   /\ Track(x, y, TRUE)
          ELSE /\ UNCHANGED <<vec, heap>>
               /\ Done("ConstructCopy", x, y, 0, 0, Thrown(fail))
               /\ Track(x, y, FALSE)

\* SimpleVector<Type> x(std::move(y));
ConstructMove(x, y) ==
    /\ Ready /\ ~vec[x].live /\ vec[y].live
    /\ LET r == SimpleVectorMove(vec[y])
       IN  vec' = [vec EXCEPT ![x] = r.v, ![y] = r.o]
    /\ UNCHANGED heap
    /\ Done("ConstructMove", x, y, 0, 0, "ok")
    /\ copied' = FALSE

\* { SimpleVector<Type> t(std::move(x)); }: x is moved into a temporary
\* vector, which is destroyed at once.
MoveToTemporary(x) ==
    /\ Ready /\ vec[x].live
    /\ LET r == SimpleVectorMove(vec[x])
       IN  /\ vec' = [vec EXCEPT ![x] = r.o]
           /\ heap' = SimpleVectorDestroy(heap, r.v)
    /\ Done("MoveToTemporary", x, "-", 0, 0, "ok")
    /\ Track(x, "-", FALSE)

\* x goes out of scope.
Destroy(x) ==
    /\ Ready /\ vec[x].live
    /\ heap' = SimpleVectorDestroy(heap, vec[x])
    /\ vec' = [vec EXCEPT ![x] = NoVector]
    /\ Done("Destroy", x, "-", 0, 0, "ok")
    /\ Track(x, "-", FALSE)

\* The heap, vector and outcome r that a member function of x leaves.
Returned(x, r, op, src, n, val) ==
    /\ vec' = [vec EXCEPT ![x] = r.t]
    /\ heap' = r.h
    /\ Done(op, x, src, n, val, r.out)

\* x = y;
CallCopyAssign(x, y) ==
    /\ Ready /\ vec[x].live /\ vec[y].live
    /\ \E fail \in CopyAssignFails(vec[y], x = y) :
          /\ Returned(x, CopyAssign(heap, vec[x], vec[y], x = y, fail),
                      "CopyAssign", y, 0, 0)
          /\ Track(x, y, fail = "none")

\* x = std::move(y);
CallMoveAssign(x, y) ==
    /\ Ready /\ vec[x].live /\ vec[y].live
    /\ \E fail \in MoveAssignFails(vec[x], vec[y]), mr \in BOOLEAN :
          LET r == MoveAssign(heap, vec[x], vec[y], fail, mr)
          IN  /\ vec' = [vec EXCEPT ![x] = r.t]
              /\ heap' = r.h
              /\ DoneWith("MoveAssign", x, y, 0, 0, r.out, r.exc)
    /\ copied' = FALSE

\* x.swap(y);
CallSwap(x, y) ==
    /\ Ready /\ vec[x].live /\ vec[y].live /\ x # y
    /\ LET sw == swap(vec[x], vec[y])
       IN  vec' = [vec EXCEPT ![x] = sw[1], ![y] = sw[2]]
    /\ UNCHANGED heap
    /\ Done("swap", x, y, 0, 0, "ok")
    /\ copied' = FALSE

\* x.Resize(new_size);
CallResize(x, new_size) ==
    /\ Ready /\ vec[x].live
    /\ \E fail \in ResizeFails(vec[x], new_size) :
          Returned(x, Resize(heap, vec[x], new_size, fail), "Resize", "-", new_size, 0)
    /\ Track(x, "-", FALSE)

\* x.Reserve(new_capacity);
CallReserve(x, new_capacity) ==
    /\ Ready /\ vec[x].live
    /\ \E fail \in ReserveFails(vec[x], new_capacity) :
          Returned(x, Reserve(heap, vec[x], new_capacity, fail), "Reserve", "-",
                   new_capacity, 0)
    /\ Track(x, "-", FALSE)

\* The capacity a growing PushBack or Insert asks for is at most cap.
GrowthBounded(t, cap) ==
    t.size + 1 <= t.capacity \/ Max(t.capacity * 2, t.size + 1) <= cap

\* x.PushBack(item); with item an lvalue
CallPushBackCopy(x, item, cap) ==
    /\ Ready /\ vec[x].live /\ GrowthBounded(vec[x], cap)
    /\ \E fail \in PushBackCopyFails(vec[x]) :
          Returned(x, PushBackCopy(heap, vec[x], item, fail), "PushBackCopy", "-", 0, item)
    /\ Track(x, "-", FALSE)

\* x.PushBack(std::move(value));
CallPushBackMove(x, value, cap) ==
    /\ Ready /\ vec[x].live /\ GrowthBounded(vec[x], cap)
    /\ \E fail \in PushBackMoveFails(vec[x]) :
          Returned(x, PushBackMove(heap, vec[x], value, fail), "PushBackMove", "-", 0, value)
    /\ Track(x, "-", FALSE)

\* x.Insert(x.begin() + offset, value); with value an lvalue
CallInsertCopy(x, offset, value, cap) ==
    /\ Ready /\ vec[x].live /\ GrowthBounded(vec[x], cap)
    /\ offset <= vec[x].size
    /\ \E fail \in InsertCopyFails(vec[x]) :
       \E shifted \in IF fail = "late" THEN 0..(vec[x].size - offset) ELSE {0} :
          Returned(x, InsertCopy(heap, vec[x], offset, value, fail, shifted),
                   "InsertCopy", "-", offset, value)
    /\ Track(x, "-", FALSE)

\* x.Insert(x.begin() + offset, std::move(value));
CallInsertMove(x, offset, value, cap) ==
    /\ Ready /\ vec[x].live /\ GrowthBounded(vec[x], cap)
    /\ offset <= vec[x].size
    /\ \E fail \in InsertMoveFails(vec[x]) :
          Returned(x, InsertMove(heap, vec[x], offset, value, fail),
                   "InsertMove", "-", offset, value)
    /\ Track(x, "-", FALSE)

\* x.PopBack();
CallPopBack(x) ==
    /\ Ready /\ vec[x].live
    /\ vec' = [vec EXCEPT ![x] = PopBack(vec[x])]
    /\ UNCHANGED heap
    /\ Done("PopBack", x, "-", 0, 0, "ok")
    /\ Track(x, "-", FALSE)

\* x.Erase(x.begin() + offset); with the position in [begin, end)
CallErase(x, offset) ==
    /\ Ready /\ vec[x].live
    /\ offset < vec[x].size
    /\ \E mr \in BOOLEAN :
          LET r == Erase(heap, vec[x], offset, mr)
          IN  vec' = [vec EXCEPT ![x] = r.t] /\ heap' = r.h
    /\ Done("Erase", x, "-", offset, 0, "ok")
    /\ Track(x, "-", FALSE)

\* x.Clear();
CallClear(x) ==
    /\ Ready /\ vec[x].live
    /\ vec' = [vec EXCEPT ![x] = Clear(vec[x])]
    /\ UNCHANGED heap
    /\ Done("Clear", x, "-", 0, 0, "ok")
    /\ Track(x, "-", FALSE)

\* x.At(index);
CallAt(x, index) ==
    /\ Ready /\ vec[x].live
    /\ UNCHANGED <<vec, heap, copied>>
    /\ LET r == At(heap, vec[x], index)
       IN  Done("At", x, "-", index, r.val, r.out)

\* x[index] = value; with index < size
CallAssignElement(x, index, value) ==
    /\ Ready /\ vec[x].live
    /\ index < vec[x].size
    /\ heap' = Store(heap, Begin(vec[x]), index, value)
    /\ UNCHANGED vec
    /\ Done("AssignElement", x, "-", index, value, "ok")
    /\ Track(x, "-", FALSE)

\* A call on the vector x alone, in a program that asks for at most cap cells.
Single(x, cap) ==
    \/ Construct(x)
    \/ \E size \in 0..cap : ConstructSized(x, size)
    \/ \E size \in 0..cap, value \in Vals : ConstructFilled(x, size, value)
    \/ \E init \in Lists(cap) : ConstructInit(x, init)
    \/ \E capacity_to_reserve \in 0..cap : ConstructReserved(x, capacity_to_reserve)
    \/ Destroy(x)
    \/ CallCopyAssign(x, x)
    \/ CallMoveAssign(x, x)
    \/ \E new_size \in 0..cap : CallResize(x, new_size)
    \/ \E new_capacity \in 0..cap : CallReserve(x, new_capacity)
    \/ \E item \in Vals : CallPushBackCopy(x, item, cap)
    \/ \E value \in Vals : CallPushBackMove(x, value, cap)
    \/ \E offset \in 0..cap, value \in Vals : CallInsertCopy(x, offset, value, cap)
    \/ \E offset \in 0..cap, value \in Vals : CallInsertMove(x, offset, value, cap)
    \/ CallPopBack(x)
    \/ \E offset \in 0..cap : CallErase(x, offset)
    \/ CallClear(x)
    \/ \E index \in 0..cap : CallAt(x, index)
    \/ \E index \in 0..cap, value \in Vals : CallAssignElement(x, index, value)

\* A call with the two distinct vectors x and y as operands.
Pair(x, y) ==
    \/ ConstructCopy(x, y)
    \/ ConstructMove(x, y)
    \/ CallCopyAssign(x, y)
    \/ CallMoveAssign(x, y)
    \/ CallSwap(x, y)

\* A program with the two vectors "a" and "b".
Next ==
    \/ \E x \in Names : Single(x, PairCap)
    \/ \E x \in Names : \E y \in Names \ {x} : Pair(x, y)
    \/ Proceed

Spec == Init /\ [][Next]_vars

\* A program with the single vector "a".
NextOne ==
    \/ Single("a", MaxCap)
    \/ MoveToTemporary("a")
    \/ Proceed

SpecOne == Init /\ [][NextOne]_vars

\* ----------------------------------------------------------------- claims
\* What a client can observe of a vector: size, capacity and elements.
View(h, v) == <<GetSize(v), GetCapacity(v), Elems(h, v)>>
\* The step is the call op on the vector x.
Called(op, x) == last'.op = op /\ last'.tgt = x
\* The call of the step returned normally.
ReturnedOk == last'.out = "ok"

\* C1: every live SimpleVector has GetSize() <= GetCapacity(), whatever
\* sequence of constructors, assignments, swaps and member calls led to it.
SizeWithinCapacity ==
    \A x \in Names : vec[x].live => GetSize(vec[x]) <= GetCapacity(vec[x])

\* C1 witness: after a swap, one vector is full and the other one has spare
\* capacity beyond its elements.
SizeWithinCapacityWitness ==
    /\ last.op = "swap"
    /\ vec["a"].size = PairCap /\ vec["a"].capacity = PairCap
    /\ vec["b"].size = 1 /\ vec["b"].capacity > 1

\* C2: the capacity every live SimpleVector reports is the number of cells
\* of the buffer it owns (a moved-from vector included), so that no call
\* stores outside an allocated buffer.
CapacityIsAllocated ==
    /\ \A x \in Names : vec[x].live => GetCapacity(vec[x]) = Allocated(heap, vec[x])
    /\ last.out # "ub"

\* C3: after x = std::move(y) with x and y distinct, x holds the elements y
\* had, in order, x.GetSize() is the size y had, and y.GetSize() == 0.
MoveAssignEmptiesSource ==
    [][\A x \in Names : \A y \in Names \ {x} :
          (Called("MoveAssign", x) /\ last'.src = y /\ ReturnedOk)
          => /\ Elems(heap', vec'[x]) = Elems(heap, vec[y])
             /\ GetSize(vec'[x]) = GetSize(vec[y])
             /\ GetSize(vec'[y]) = 0]_vars

\* C4: after Resize(n) with n greater than the size, GetSize() == n and
\* GetCapacity() == 2 * n.
ResizeGrowthDoublesCapacity ==
    [][\A x \in Names :
          (Called("Resize", x) /\ ReturnedOk /\ last'.n > GetSize(vec[x]))
          => /\ GetSize(vec'[x]) = last'.n
             /\ GetCapacity(vec'[x]) = 2 * last'.n]_vars

\* C5: Resize(n) with n <= size (n == size included) keeps the elements
\* [0, n), sets the size to n and leaves the capacity unchanged.
ResizeWithinSizeKeepsCapacity ==
    [][\A x \in Names :
          (Called("Resize", x) /\ ReturnedOk /\ last'.n <= GetSize(vec[x]))
          => /\ GetSize(vec'[x]) = last'.n
             /\ GetCapacity(vec'[x]) = GetCapacity(vec[x])
             /\ \A i \in 0..(last'.n - 1) :
                   Load(heap', Begin(vec'[x]), i) = Load(heap, Begin(vec[x]), i)]_vars

\* The call of the step did not end by throwing an exception.
NotThrown == last'.out \notin {"bad_alloc", "throw"}
\* The sequence s with v inserted before its element of index i (0-based).
Inserted(s, i, v) == SubSeq(s, 1, i) \o <<v>> \o SubSeq(s, i + 1, Len(s))
\* The sequence s without its element of index i (0-based).
Removed(s, i) == SubSeq(s, 1, i) \o SubSeq(s, i + 2, Len(s))

\* C6: Insert(begin() + i, v), by copy or by move, in place or reallocating,
\* grows the size by 1, puts v at index i, keeps the elements before i and
\* moves the elements formerly at [i, oldSize) to [i + 1, oldSize + 1).
InsertShiftsTail ==
    [][\A x \in Names :
          ((Called("InsertCopy", x) \/ Called("InsertMove", x)) /\ NotThrown)
          => /\ GetSize(vec'[x]) = GetSize(vec[x]) + 1
             /\ Elems(heap', vec'[x]) = Inserted(Elems(heap, vec[x]), last'.n, last'.val)]_vars

\* C6 on the vectors whose capacity is the size of their buffer.
InsertShiftsTailWhenBacked ==
    [][\A x \in Names :
          ((Called("InsertCopy", x) \/ Called("InsertMove", x)) /\ NotThrown
           /\ GetCapacity(vec[x]) = Allocated(heap, vec[x]))
          => /\ GetSize(vec'[x]) = GetSize(vec[x]) + 1
             /\ Elems(heap', vec'[x]) = Inserted(Elems(heap, vec[x]), last'.n, last'.val)]_vars

\* C7: Erase(begin() + i) on a non-empty vector, i < size, shrinks the size
\* by 1, keeps the capacity and the elements before i, and moves every
\* element formerly at an index j > i to j - 1.
EraseShiftsLeft ==
    [][\A x \in Names :
          Called("Erase", x)
          => /\ GetSize(vec'[x]) = GetSize(vec[x]) - 1
             /\ GetCapacity(vec'[x]) = GetCapacity(vec[x])
             /\ Elems(heap', vec'[x]) = Removed(Elems(heap, vec[x]), last'.n)]_vars

\* C7 witness: an element with neighbours on both sides, which differ from
\* each other, has been erased.
EraseShiftsLeftWitness ==
    /\ last.op = "Erase" /\ last.n = 1
    /\ vec["a"].size = 3
    /\ Load(heap, Begin(vec["a"]), 0) # Load(heap, Begin(vec["a"]), 1)
    /\ Load(heap, Begin(vec["a"]), 1) # Load(heap, Begin(vec["a"]), 2)

\* C8: PushBack(value), by copy or by move, grows the size by 1, stores value
\* at index oldSize and keeps the elements before it; the capacity becomes
\* max(capacity * 2, size + 1) if size == capacity and is unchanged otherwise.
PushBackAppends ==
    [][\A x \in Names :
          ((Called("PushBackCopy", x) \/ Called("PushBackMove", x)) /\ NotThrown)
          => /\ GetSize(vec'[x]) = GetSize(vec[x]) + 1
             /\ Elems(heap', vec'[x]) = Append(Elems(heap, vec[x]), last'.val)
             /\ GetCapacity(vec'[x]) =
                   IF GetSize(vec[x]) = GetCapacity(vec[x])
                   THEN Max(GetCapacity(vec[x]) * 2, GetSize(vec[x]) + 1)
                   ELSE GetCapacity(vec[x])]_vars

\* C8 on the vectors whose capacity is the size of their buffer.
PushBackAppendsWhenBacked ==
    [][\A x \in Names :
          ((Called("PushBackCopy", x) \/ Called("PushBackMove", x)) /\ NotThrown
           /\ GetCapacity(vec[x]) = Allocated(heap, vec[x]))
          => /\ GetSize(vec'[x]) = GetSize(vec[x]) + 1
             /\ Elems(heap', vec'[x]) = Append(Elems(heap, vec[x]), last'.val)
             /\ GetCapacity(vec'[x]) =
                   IF GetSize(vec[x]) = GetCapacity(vec[x])
                   THEN Max(GetCapacity(vec[x]) * 2, GetSize(vec[x]) + 1)
                   ELSE GetCapacity(vec[x])]_vars

\* C9: a vector made as a copy of another one (by the copy constructor or by
\* copy assignment) equals it, and no later call on the copy changes the
\* size, the capacity or an element of the original.
CopyIsDeep ==
    [][/\ \A x \in Names : \A y \in Names \ {x} :
             ((Called("ConstructCopy", x) \/ Called("CopyAssign", x))
              /\ last'.src = y /\ ReturnedOk)
             => /\ Equal(heap', vec'[x], vec'[y])
                /\ GetSize(vec'[x]) = GetSize(vec[y])
                /\ Elems(heap', vec'[x]) = Elems(heap, vec[y])
       /\ (copied /\ copied')
             => View(heap', vec'["a"]) = View(heap, vec["a"])]_vars

\* C9 witness: "b" was copied from the non-empty "a" and an element of "b"
\* has been overwritten since, so that the two differ.
CopyIsDeepWitness ==
    /\ copied
    /\ last.op = "AssignElement" /\ last.tgt = "b"
    /\ vec["a"].size = PairCap /\ vec["b"].size = PairCap
    /\ ~Equal(heap, vec["a"], vec["b"])

\* C10: a copy assignment, a growing Resize, a Reserve or a reallocating
\* PushBack or Insert that fails (allocation or element operation) leaves
\* the size, the capacity and the elements of the vector as they were.
FailureLeavesVectorUnchanged ==
    [][\A x \in Names :
          (/\ last'.tgt = x
           /\ last'.out \in {"bad_alloc", "throw"}
           /\ \/ last'.op \in {"CopyAssign", "Reserve"}
              \/ last'.op = "Resize" /\ last'.n > GetSize(vec[x])
              \/ /\ last'.op \in {"PushBackCopy", "PushBackMove", "InsertCopy", "InsertMove"}
                 /\ GetSize(vec[x]) + 1 > GetCapacity(vec[x]))
          => View(heap', vec'[x]) = View(heap, vec[x])]_vars

\* C11: Reserve(n) with n > capacity keeps the size and the elements
\* [0, size) and sets the capacity to exactly n; Reserve(n) with
\* n <= capacity changes nothing: capacity, size, elements and buffer.
ReserveKeepsElements ==
    [][\A x \in Names :
          (Called("Reserve", x) /\ ReturnedOk)
          => IF last'.n > GetCapacity(vec[x])
             THEN /\ GetSize(vec'[x]) = GetSize(vec[x])
                  /\ Elems(heap', vec'[x]) = Elems(heap, vec[x])
                  /\ GetCapacity(vec'[x]) = last'.n
             ELSE /\ vec'[x] = vec[x]
                  /\ heap' = heap]_vars

\* C11 witness: a Reserve beyond the capacity has returned on a vector whose
\* elements are not all the default value.
ReserveKeepsElementsWitness ==
    /\ last.op = "Reserve" /\ last.out = "ok" /\ last.tgt = "a"
    /\ last.n > last.cap0
    /\ vec["a"].size >= 2 /\ vec["a"].capacity = last.n
    /\ Load(heap, Begin(vec["a"]), 0) # DefaultVal
    /\ Load(heap, Begin(vec["a"]), 1) = DefaultVal

\* C12: At(index) throws std::out_of_range if and only if index >= size, and
\* then size, capacity and elements are unchanged; for index < size it
\* returns the element at that index, an element of the buffer, and leaves
\* the container unmodified.
AtChecksIndex ==
    [][\A x \in Names :
          Called("At", x)
          => /\ last'.out = "out_of_range" <=> last'.n >= GetSize(vec[x])
             /\ View(heap', vec'[x]) = View(heap, vec[x])
             /\ last'.n < GetSize(vec[x])
                   => /\ ReturnedOk
                      /\ InBounds(heap, Begin(vec[x]), last'.n)
                      /\ last'.val = Elems(heap, vec[x])[last'.n + 1]]_vars

\* C12 witness: At(size) has thrown on a non-empty vector with spare
\* capacity, the smallest index that is out of range.
AtChecksIndexWitness ==
    /\ last.op = "At" /\ last.tgt = "a" /\ last.out = "out_of_range"
    /\ vec["a"].size > 0
    /\ last.n = vec["a"].size
    /\ last.n < vec["a"].capacity

\* At(size - 1) has returned the last element, which is not the default value.
AtReturnsElement ==
    /\ last.op = "At" /\ last.tgt = "a" /\ last.out = "ok"
    /\ last.n = vec["a"].size - 1
    /\ last.val # DefaultVal

\* C13: after Resize(n) with n greater than the old size, the elements
\* [0, oldSize) are unchanged, every element of [oldSize, n) is the default
\* value, whatever the slots held before, and GetSize() == n.
ResizeGrowthDefaultsTail ==
    [][\A x \in Names :
          (Called("Resize", x) /\ ReturnedOk /\ last'.n > GetSize(vec[x]))
          => /\ GetSize(vec'[x]) = last'.n
             /\ Elems(heap', vec'[x]) =
                   Elems(heap, vec[x])
                   \o [i \in 1..(last'.n - GetSize(vec[x])) |-> DefaultVal]]_vars

\* C13 witness: a Resize(n) beyond the size has returned on a vector that
\* had elements and whose capacity already covered n, so that the slots
\* [oldSize, n) existed before the call.
ResizeGrowthDefaultsTailWitness ==
    /\ last.op = "Resize" /\ last.tgt = "a" /\ last.out = "ok"
    /\ last.size0 > 0 /\ last.n > last.size0 /\ last.n <= last.cap0
    /\ vec["a"].size = last.n
    /\ Load(heap, Begin(vec["a"]), 0) # DefaultVal

\* C14: x = y with y empty and distinct from x sets x's size to 0 and leaves
\* x's capacity and buffer as they were (the capacity is not reset to y's);
\* x = x changes nothing.
CopyAssignEmptyKeepsCapacity ==
    [][\A x \in Names :
          Called("CopyAssign", x)
          => /\ (last'.src # x /\ IsEmpty(vec[last'.src]))
                   => /\ ReturnedOk
                      /\ GetSize(vec'[x]) = 0
                      /\ GetCapacity(vec'[x]) = GetCapacity(vec[x])
                      /\ vec'[x].items = vec[x].items
                      /\ heap' = heap
             /\ last'.src = x
                   => /\ ReturnedOk
                      /\ vec' = vec
                      /\ heap' = heap]_vars

\* C14 witness: the empty "a", of capacity 0, has been copy-assigned to "b",
\* which had elements: "b" is empty and keeps its capacity and its buffer.
CopyAssignEmptyKeepsCapacityWitness ==
    /\ last.op = "CopyAssign" /\ last.tgt = "b" /\ last.src = "a" /\ last.out = "ok"
    /\ vec["a"].size = 0 /\ vec["a"].capacity = 0
    /\ last.size0 > 0
    /\ vec["b"].size = 0 /\ vec["b"].capacity = last.cap0
    /\ Allocated(heap, vec["b"]) = last.cap0

\* C15: after SimpleVector x(std::move(y)), x owns the buffer y owned and has
\* the size, capacity and elements y had; nothing is allocated or freed; and
\* y.GetSize() == 0.
MoveConstructTransfers ==
    [][\A x \in Names : \A y \in Names \ {x} :
          (Called("ConstructMove", x) /\ last'.src = y)
          => /\ ReturnedOk
             /\ vec'[x].live
             /\ vec'[x].items = vec[y].items
             /\ View(heap', vec'[x]) = View(heap, vec[y])
             /\ heap' = heap
             /\ GetSize(vec'[y]) = 0]_vars

\* C15 witness: "b" has been move-constructed from a full "a" whose elements
\* are not all the default value; "b" holds them and "a" is empty.
MoveConstructTransfersWitness ==
    /\ last.op = "ConstructMove" /\ last.tgt = "b" /\ last.src = "a"
    /\ vec["b"].size = PairCap /\ vec["b"].capacity = PairCap
    /\ Begin(vec["b"]) # NullBlock
    /\ Load(heap, Begin(vec["b"]), 0) # DefaultVal
    /\ vec["a"].live /\ vec["a"].size = 0

\* C16: an allocation failure (std::bad_alloc) raised inside any operation
\* that allocates reaches the caller of that operation as std::bad_alloc; it
\* is neither swallowed nor turned into program termination.
AllocationFailureReachesCaller ==
    last.exc = "bad_alloc" => last.out = "bad_alloc"

\* C16 on every operation but the noexcept move assignment.
AllocationFailureReachesCallerUnlessMoveAssign ==
    (last.exc = "bad_alloc" /\ last.op # "MoveAssign") => last.out = "bad_alloc"

\* Each kind of allocating operation has had its allocation fail.
AllocationFailsInConstructor ==
    last.op = "ConstructCopy" /\ last.exc = "bad_alloc"
AllocationFailsInInsert ==
    last.op = "InsertMove" /\ last.exc = "bad_alloc" /\ last.size0 > 0

\* C17: the handle of every live vector, whichever ArrayPtr operations made
\* it (size constructor, raw-pointer constructor, move, Release, swap), has
\* a null data pointer if and only if its stored capacity is 0.
ArrayPtrNullIffNoCapacity ==
    \A x \in Names :
        vec[x].live => (vec[x].items.raw_ptr = NullBlock <=> vec[x].items.capacity = 0)

\* C17 on the handles made by the size constructor, moves and swaps alone:
\* the vectors that no PushBack(const Type&) has reallocated.
ArrayPtrNullIffNoCapacityWithoutRaw ==
    [][(\A x \in Names :
           vec[x].live => (vec[x].items.raw_ptr = NullBlock <=> vec[x].items.capacity = 0))
       /\ last'.op # "PushBackCopy"
       => \A x \in Names :
             vec'[x].live
             => (vec'[x].items.raw_ptr = NullBlock <=> vec'[x].items.capacity = 0)]_vars

\* The live vectors whose handle points at block b.
Owners(b) == {x \in Names : vec[x].live /\ Begin(vec[x]) = b}

\* C18: after any sequence of constructions, copies, moves, swaps, growth
\* operations and destructions, every allocated block is owned by exactly
\* one live handle (no block shared by two vectors, none left without an
\* owner), every handle points at an allocated block or at nothing, and no
\* block has been freed twice.
ExclusiveOwnership ==
    /\ \A b \in Blocks : heap[b].alive => Cardinality(Owners(b)) = 1
    /\ \A x \in Names :
          (vec[x].live /\ Begin(vec[x]) # NullBlock) => heap[Begin(vec[x])].alive
    /\ \A b \in Blocks : ~heap[b].twice

\* C18 witness: "b" has been copy-assigned from "a" while both owned a buffer
\* (three blocks were allocated during the call); two blocks are left, one
\* for each vector.
ExclusiveOwnershipWitness ==
    /\ last.op = "CopyAssign" /\ last.tgt = "b" /\ last.src = "a" /\ last.out = "ok"
    /\ last.cap0 > 0 /\ vec["a"].size > 0
    /\ Begin(vec["a"]) # NullBlock /\ Begin(vec["b"]) # NullBlock
    /\ Begin(vec["a"]) # Begin(vec["b"])
    /\ Cardinality({b \in Blocks : heap[b].alive}) = 2

\* The calls on a single container that C19 is about.
MemberCalls ==
    {"PushBackCopy", "PushBackMove", "InsertCopy", "InsertMove",
     "PopBack", "Erase", "Clear", "Resize", "Reserve"}

\* C19: no PushBack, Insert, PopBack, Erase, Clear, Resize or Reserve call
\* lowers the capacity of the container it is made on; in particular
\* Resize(n) with size <= n <= capacity does not.
CapacityNeverDecreases ==
    [][\A x \in Names :
          (last'.tgt = x /\ last'.op \in MemberCalls)
          => GetCapacity(vec'[x]) >= GetCapacity(vec[x])]_vars

\* C19 on every call but Resize.
CapacityNeverDecreasesUnlessResize ==
    [][\A x \in Names :
          (last'.tgt = x /\ last'.op \in MemberCalls \ {"Resize"})
          => GetCapacity(vec'[x]) >= GetCapacity(vec[x])]_vars

\* The results of the by-copy and the by-move call are the same: both end
\* the same way, and when they return, with the same size, capacity and
\* elements.
SameResult(c, m) ==
    /\ c.out = m.out
    /\ c.out = "ok" => View(c.h, c.t) = View(m.h, m.t)

\* C20: in every reachable state, PushBack(const Type&) and PushBack(Type&&)
\* with the same value, and Insert(pos, const Type&) and Insert(pos, Type&&)
\* at the same position with the same value, give the same size, capacity
\* and elements; the two paths grow in the same states (size + 1 > capacity
\* against capacity == size, capacity > size) and to the same capacity
\* (max(capacity * 2, size + 1) against 1 if empty, else size * 2).
CopyAndMoveVariantsAgree ==
    \A x \in Names :
        vec[x].live
        => LET t == vec[x]
           IN  /\ (t.size + 1 > t.capacity) <=> (t.capacity = t.size)
               /\ (t.size + 1 <= t.capacity) <=> (t.capacity > t.size)
               /\ t.capacity = t.size
                     => /\ Max(t.capacity * 2, t.size + 1)
                              = (IF t.size = 0 THEN 1 ELSE t.size * 2)
                        /\ Max(t.capacity * 2, t.size + 1)
                              = (IF t.capacity = 0 THEN 1 ELSE t.size * 2)
               /\ \A value \in Vals :
                     /\ SameResult(PushBackCopy(heap, t, value, "none"),
                                   PushBackMove(heap, t, value, "none"))
                     /\ \A offset \in 0..t.size :
                           SameResult(InsertCopy(heap, t, offset, value, "none", 0),
                                      InsertMove(heap, t, offset, value, "none"))

\* C20 witness: PushBack(Type&&) has grown a full vector of at least two
\* elements, where max(capacity * 2, size + 1) and size * 2 are compared.
CopyAndMoveVariantsAgreeWitness ==
    /\ last.op = "PushBackMove" /\ last.tgt = "a" /\ last.out = "ok"
    /\ last.size0 >= 2 /\ last.size0 = last.cap0
    /\ vec["a"].size = last.size0 + 1
    /\ vec["a"].capacity = 2 * last.size0

\* Insert(pos, const Type&) has grown a full vector in the middle.
InsertCopyHasGrown ==
    /\ last.op = "InsertCopy" /\ last.tgt = "a" /\ last.out = "ok"
    /\ last.size0 >= 2 /\ last.size0 = last.cap0
    /\ last.n = 1
    /\ vec["a"].capacity = 2 * last.size0

====
